---------------------------- MODULE Spec2Model ----------------------------
(***************************************************************************)
(* WildcardMatch.match of python/wildcard_match/wildcard_match.py: a       *)
(* single-pass matcher of a token sequence against a pattern of literal    *)
(* tokens and wildcard specifiers.  One call of match is modelled as a     *)
(* state machine over its local variables; every action is one iteration   *)
(* (or one exit) of one of its three loops.                                *)
(***************************************************************************)
EXTENDS Integers, Sequences, FiniteSets, TLC

\* Bounds of the explored inputs.
MaxTargetLen == 2
MaxPatternLen == 3
MaxBound == 1

\* Python's None (an absent maximum: unbounded).
None == -1

\* The tokens targets and literal pattern pieces are drawn from.
Tokens == {"a", "b"}

\* The text of a piece that variant_expression recognises: "{min,max}".
RangeText == "{,}"

\* The digit strings of a range's groups: a number, or the empty string of an
\* omitted bound.
NumberTexts == {<<d>> : d \in 0..MaxBound}
EmptyText == <<>>

\* A pattern piece: its text, and for a range-form piece the two groups that
\* variant_pattern captures: "{m,n}", "{m,}" and "{,}".
LiteralPieces == {[text |-> t, min |-> EmptyText, max |-> EmptyText] : t \in Tokens}
RulePieces == {[text |-> t, min |-> EmptyText, max |-> EmptyText] : t \in {"*", "?", "+"}}
RangePieces ==
   {[text |-> RangeText, min |-> a, max |-> b] : a \in NumberTexts, b \in NumberTexts \cup {EmptyText}}
      \cup {[text |-> RangeText, min |-> EmptyText, max |-> EmptyText]}
Pieces == LiteralPieces \cup RulePieces \cup RangePieces

RECURSIVE SeqsUpTo(_, _)
SeqsUpTo(S, n) ==
   IF n = 0 THEN {<<>>}
   ELSE LET shorter == SeqsUpTo(S, n - 1)
        IN  shorter \cup {Append(s, x) : s \in {q \in shorter : Len(q) = n - 1}, x \in S}

Targets == SeqsUpTo(Tokens, MaxTargetLen)
Patterns == SeqsUpTo(Pieces, MaxPatternLen)

\* variant_rewrite_rules: the predefined specifiers.
variant_rewrite_rules == ("*" :> <<0, None>>) @@ ("?" :> <<0, 1>>) @@ ("+" :> <<1, None>>)

\* variant_expression.match( piece ) is not None
HasMatchObject(piece) == piece.text = RangeText

\* piece in variant_rewrite_rules or mo is not None
IsVariant(piece) == piece.text \in DOMAIN variant_rewrite_rules \/ HasMatchObject(piece)

\* int( text ) of a one-number digit string.
IntOf(digits) == digits[1]

\* What an evaluation of a specifier's lengths gives: the pair, or the
\* exception it raises.
Lengths(minimum, maximum) == [raises |-> "", min |-> minimum, max |-> maximum]
Raises(error) == [raises |-> error, min |-> 0, max |-> None]

\* _get_variant_lengths( mo )
GetVariantLengths(mo) ==
   LET minimum == IF mo.min # EmptyText THEN IntOf(mo.min) ELSE 0
       maximum == IF mo.max # EmptyText THEN IntOf(mo.max) ELSE None
   IN  IF maximum # None /\ maximum < minimum THEN Raises("ValueError")
       ELSE Lengths(minimum, maximum)

\* variant_rewrite_rules[ key ]
RewriteRule(key) ==
   IF key \in DOMAIN variant_rewrite_rules
   THEN Lengths(variant_rewrite_rules[key][1], variant_rewrite_rules[key][2])
   ELSE Raises("KeyError")

\* _sum_variant_lengths of two pairs.
SumVariantLengths(first, second) ==
   LET minimum == first.min + second.min
       maximum == IF second.max # None
                  THEN IF first.max = None THEN second.max ELSE first.max + second.max
                  ELSE first.max
   IN  Lengths(minimum, maximum)

VARIABLES target, pattern, target_index, piece_index, match_possible,
          piece, next_piece, minimum_variant_length, maximum_variant_length,
          next_piece_matched, pc, result, raised, steps

vars == <<target, pattern, target_index, piece_index, match_possible,
          piece, next_piece, minimum_variant_length, maximum_variant_length,
          next_piece_matched, pc, result, raised, steps>>

target_length == Len(target)
pattern_length == Len(pattern)

\* A piece no assignment has set yet.
Unbound == [text |-> "", min |-> EmptyText, max |-> EmptyText]

Init ==
   /\ target \in Targets
   /\ pattern \in Patterns
   /\ target_index = 0
   /\ piece_index = 0
   /\ match_possible = TRUE
   /\ piece = Unbound
   /\ next_piece = Unbound
   /\ minimum_variant_length = 0
   /\ maximum_variant_length = None
   /\ next_piece_matched = FALSE
   /\ pc = "loop"
   /\ result = FALSE
   /\ raised = ""
   /\ steps = 0

\* The condition of the main loop.
LoopCondition ==
   match_possible /\ piece_index < pattern_length /\ target_index < target_length

\* An exception leaves match: nothing else changes.
Raise(error) ==
   /\ pc' = "raised"
   /\ raised' = error
   /\ UNCHANGED <<target_index, piece_index, match_possible, next_piece,
                  minimum_variant_length, maximum_variant_length,
                  next_piece_matched, result>>

\* The lengths of the piece that opens a run.
FirstLengths(p) ==
   IF ~HasMatchObject(p) THEN RewriteRule(p.text) ELSE GetVariantLengths(p)

\* The lengths the run-collapsing loop adds for next_piece: the rule is looked
\* up under the run's first piece.
NewLengths(first, next) ==
   IF ~HasMatchObject(next) THEN RewriteRule(first.text) ELSE GetVariantLengths(next)

\* A main-loop iteration whose piece is a wildcard specifier, up to the
\* run-collapsing loop.
VariantPiece ==
   /\ pc = "loop"
   /\ LoopCondition
   /\ IsVariant(pattern[piece_index + 1])
   /\ piece' = pattern[piece_index + 1]
   /\ steps' = steps + 1
   /\ UNCHANGED <<target, pattern>>
   /\ LET lengths == FirstLengths(piece')
      IN  IF lengths.raises # "" THEN Raise(lengths.raises)
          ELSE /\ minimum_variant_length' = lengths.min
               /\ maximum_variant_length' = lengths.max
               /\ piece_index' = piece_index + 1
               /\ next_piece' = IF piece_index' < pattern_length
                                THEN pattern[piece_index' + 1] ELSE next_piece
               /\ pc' = "collapse"
               /\ UNCHANGED <<target_index, match_possible, next_piece_matched,
                              result, raised>>

\* The condition of the run-collapsing loop.
CollapseCondition == piece_index < pattern_length /\ IsVariant(next_piece)

\* An iteration of the run-collapsing loop.
CollapseStep ==
   /\ pc = "collapse"
   /\ CollapseCondition
   /\ steps' = steps + 1
   /\ UNCHANGED <<target, pattern, piece>>
   /\ LET new == NewLengths(piece, next_piece)
          sum == SumVariantLengths(Lengths(minimum_variant_length, maximum_variant_length), new)
      IN  IF new.raises # "" THEN Raise(new.raises)
          ELSE /\ minimum_variant_length' = sum.min
               /\ maximum_variant_length' = sum.max
               /\ piece_index' = piece_index + 1
               /\ next_piece' = IF piece_index' < pattern_length
                                THEN pattern[piece_index' + 1] ELSE next_piece
               /\ UNCHANGED <<target_index, match_possible, next_piece_matched,
                              pc, result, raised>>

\* The run is the last content of the pattern.
LastPiece ==
   /\ pc = "collapse"
   /\ ~CollapseCondition
   /\ piece_index = pattern_length
   /\ LET remaining_target_amount == target_length - target_index
      IN  IF /\ remaining_target_amount >= minimum_variant_length
             /\ (maximum_variant_length = None
                    \/ maximum_variant_length <= remaining_target_amount)
          THEN /\ target_index' = IF maximum_variant_length = None THEN target_length
                                  ELSE target_index + maximum_variant_length
               /\ UNCHANGED match_possible
          ELSE /\ match_possible' = FALSE
               /\ UNCHANGED target_index
   /\ pc' = "loop"
   /\ UNCHANGED <<target, pattern, piece_index, piece, next_piece,
                  minimum_variant_length, maximum_variant_length,
                  next_piece_matched, result, raised, steps>>

\* The run is followed by a literal (an invariant).
InvariantFollows ==
   /\ pc = "collapse"
   /\ ~CollapseCondition
   /\ piece_index # pattern_length
   /\ IF maximum_variant_length = None
      THEN /\ target_index' = target_index + minimum_variant_length
           /\ next_piece_matched' = FALSE
           /\ pc' = "scan"
      ELSE /\ target_index' = target_index + minimum_variant_length
                                 + (maximum_variant_length - minimum_variant_length)
           /\ pc' = "loop"
           /\ UNCHANGED next_piece_matched
   /\ UNCHANGED <<target, pattern, piece_index, match_possible, piece, next_piece,
                  minimum_variant_length, maximum_variant_length, result, raised,
                  steps>>

\* A scan that does not stop at the first token equal to the literal.
ScanConditionToEnd == target_index < target_length

\* The condition of the forward scan.
ScanCondition == ~next_piece_matched /\ target_index < target_length

\* A scan iteration that leaves target_index where it is.
ScanStepStalled ==
   /\ pc = "scan"
   /\ ScanCondition
   /\ next_piece_matched' = (target[target_index + 1] = next_piece.text)
   /\ steps' = steps + 1
   /\ UNCHANGED <<target, pattern, target_index, piece_index, match_possible, piece,
                  next_piece, minimum_variant_length, maximum_variant_length, pc,
                  result, raised>>

\* An iteration of the forward scan for the literal after an unbounded run.
ScanStep ==
   /\ pc = "scan"
   /\ ScanCondition
   /\ next_piece_matched' = (target[target_index + 1] = next_piece.text)
   /\ target_index' = target_index + 1
   /\ steps' = steps + 1
   /\ UNCHANGED <<target, pattern, piece_index, match_possible, piece, next_piece,
                  minimum_variant_length, maximum_variant_length, pc, result,
                  raised>>

\* The forward scan ends.
ScanExit ==
   /\ pc = "scan"
   /\ ~ScanCondition
   /\ match_possible' = next_piece_matched
   /\ piece_index' = IF next_piece_matched THEN piece_index + 1 ELSE piece_index
   /\ pc' = "loop"
   /\ UNCHANGED <<target, pattern, target_index, piece, next_piece,
                  minimum_variant_length, maximum_variant_length,
                  next_piece_matched, result, raised, steps>>

\* A main-loop iteration whose piece is a literal.
LiteralPiece ==
   /\ pc = "loop"
   /\ LoopCondition
   /\ ~IsVariant(pattern[piece_index + 1])
   /\ piece' = pattern[piece_index + 1]
   /\ steps' = steps + 1
   /\ IF target[target_index + 1] = piece'.text
      THEN /\ target_index' = target_index + 1
           /\ piece_index' = piece_index + 1
           /\ UNCHANGED match_possible
      ELSE /\ match_possible' = FALSE
           /\ UNCHANGED <<target_index, piece_index>>
   /\ UNCHANGED <<target, pattern, next_piece, minimum_variant_length,
                  maximum_variant_length, next_piece_matched, pc, result, raised>>

\* A return value that forgets the pattern's cursor.
ReturnValueTargetOnly == target_index >= target_length

\* The value match returns.
ReturnValue == target_index >= target_length /\ piece_index >= pattern_length

\* The main loop ends and match returns.
Return ==
   /\ pc = "loop"
   /\ ~LoopCondition
   /\ result' = ReturnValue
   /\ pc' = "done"
   /\ UNCHANGED <<target, pattern, target_index, piece_index, match_possible,
                  piece, next_piece, minimum_variant_length,
                  maximum_variant_length, next_piece_matched, raised, steps>>

Next ==
   \/ VariantPiece
   \/ CollapseStep
   \/ LastPiece
   \/ InvariantFollows
   \/ ScanStep
   \/ ScanExit
   \/ LiteralPiece
   \/ Return

Spec == Init /\ [][Next]_vars

(***************************************************************************)
(* Vocabulary of the properties.                                           *)
(***************************************************************************)

Returned == pc = "done"
Ended == pc \in {"done", "raised"}

Literal(t) == [text |-> t, min |-> EmptyText, max |-> EmptyText]
Rule(t) == [text |-> t, min |-> EmptyText, max |-> EmptyText]
Range(a, b) == [text |-> RangeText, min |-> a, max |-> b]

\* A range-form piece whose maximum is present and less than its minimum.
InvalidRange(p) == HasMatchObject(p) /\ GetVariantLengths(p).raises = "ValueError"
HasInvalidRange == \E i \in 1..Len(pattern) : InvalidRange(pattern[i])

AllLiterals == \A i \in 1..Len(pattern) : ~IsVariant(pattern[i])
PatternTexts == [i \in 1..Len(pattern) |-> pattern[i].text]

\* C1: for every target, the empty one included, match(T, ["*"]) is True.
C1_StarMatchesEveryTarget ==
   (Returned /\ pattern = <<Rule("*")>>) => result = TRUE

\* C2: a pattern that contains a range whose maximum is less than its minimum
\* ends in the configuration error for every target, never in True or False.
C2_InvalidRangeAlwaysRaises ==
   (Ended /\ HasInvalidRange) => (pc = "raised" /\ raised = "ValueError")

\* C3: match ends in a boolean or in the range-validity error of an invalid
\* range, and a pattern whose ranges are all valid always ends in a boolean.
C3_BooleanOrRangeError ==
   /\ pc = "raised" => (raised = "ValueError" /\ HasInvalidRange)
   /\ (Ended /\ ~HasInvalidRange) => Returned

\* The index (0-based) of the first piece of the maximal run of wildcard
\* specifiers that ends just before piece j.
RECURSIVE RunStart(_)
RunStart(j) == IF j > 0 /\ IsVariant(pattern[j]) THEN RunStart(j - 1) ELSE j

\* The specifier's own lengths: those of its rule or of its range.
OwnLengths(p) == IF HasMatchObject(p) THEN GetVariantLengths(p) ELSE RewriteRule(p.text)

\* The summed minimums of pieces i+1 .. j, and their summed maximums, None as
\* soon as one of them is None.
RECURSIVE MinimumSum(_, _)
MinimumSum(i, j) == IF i >= j THEN 0 ELSE OwnLengths(pattern[j]).min + MinimumSum(i, j - 1)
RECURSIVE MaximumSum(_, _)
MaximumSum(i, j) ==
   IF i >= j THEN 0
   ELSE IF OwnLengths(pattern[j]).max = None \/ MaximumSum(i, j - 1) = None THEN None
   ELSE OwnLengths(pattern[j]).max + MaximumSum(i, j - 1)

\* The run-collapsing loop has absorbed the whole run.
RunCollapsed == pc = "collapse" /\ ~CollapseCondition

\* C4: the (minimum, maximum) match uses for a maximal run of adjacent
\* specifiers is the sum of their own minimums and the sum of their own
\* maximums, unbounded as soon as one of them is unbounded.
C4_RunLengthsAreSums ==
   RunCollapsed =>
      /\ minimum_variant_length = MinimumSum(RunStart(piece_index), piece_index)
      /\ maximum_variant_length = MaximumSum(RunStart(piece_index), piece_index)

\* C5: match(T, ["{m,m}"]) is True if and only if len(T) = m.
C5_ExactCount ==
   \A m \in 0..MaxBound :
      (Returned /\ pattern = <<Range(<<m>>, <<m>>)>>) => (result <=> Len(target) = m)

\* C6: match(T, ["{m,}"]) is True if and only if len(T) >= m.
C6_OpenLowerBound ==
   \A m \in 0..MaxBound :
      (Returned /\ pattern = <<Range(<<m>>, EmptyText)>>) => (result <=> Len(target) >= m)

\* C7: a pattern of literal pieces only matches exactly the target that is
\* equal to it token by token, of the same length; it never raises.
C7_LiteralPatternIsEquality ==
   AllLiterals =>
      /\ pc # "raised"
      /\ Returned => (result <=> target = PatternTexts)

C7_Witness ==
   /\ Returned /\ AllLiterals /\ Len(pattern) = 2 /\ result /\ steps = 2

\* The position of a loop within one pass of the main loop: the run-collapsing
\* loop comes before the forward scan, which comes before the next main-loop
\* test, which comes before the end.
Position ==
   CASE pc = "collapse" -> 3
     [] pc = "scan" -> 2
     [] pc = "loop" -> 1
     [] OTHER -> 0

\* What is left to do: pieces not yet passed, tokens not yet passed, the flag
\* not yet cleared and the position within the pass.
Remaining ==
   4 * (pattern_length - piece_index)
      + (IF target_index < target_length THEN target_length - target_index ELSE 0)
      + (IF match_possible THEN 1 ELSE 0)
      + Position

StepsBounded == steps <= Len(target) + Len(pattern)

\* A main-loop iteration clears the flag or advances piece_index (or raises).
MainLoopAdvances ==
   (pc = "loop" /\ pc' # "done") =>
      (piece_index' > piece_index \/ ~match_possible' \/ pc' = "raised")

\* The run-collapsing loop advances piece_index (or raises), the forward scan
\* advances target_index.
InnerLoopsAdvance ==
   /\ (pc = "collapse" /\ pc' = "collapse") => piece_index' > piece_index
   /\ (pc = "scan" /\ pc' = "scan") => target_index' > target_index

\* C8: match terminates.  Every main-loop iteration clears the flag or advances
\* piece_index, every inner-loop iteration advances its cursor, every step
\* brings the end nearer, and the loop iterations number at most
\* len(target) + len(pattern).
C8_Terminates ==
   /\ [](StepsBounded /\ Remaining >= 0 /\ piece_index <= pattern_length)
   /\ [][MainLoopAdvances /\ InnerLoopsAdvance /\ Remaining' < Remaining]_vars

C8_Witness ==
   /\ Returned /\ steps = Len(target) + Len(pattern) - 1
   /\ steps > Len(pattern) /\ steps > Len(target)

\* The first position (1-based) of token t in the target, 0 when it is absent.
FirstOccurrence(t) ==
   IF \E i \in 1..Len(target) : target[i] = t
   THEN CHOOSE i \in 1..Len(target) :
           target[i] = t /\ \A j \in 1..(i - 1) : target[j] # t
   ELSE 0

\* The forward scan is under way: the unbounded run before next_piece has had
\* its minimum consumed.
Scanning == pc = "scan"

\* The scan has stopped on the token it last passed, equal to the literal.
ScanFound == next_piece_matched => target[target_index] = next_piece.text

\* Leaving the scan: a found literal is consumed with the token found first,
\* an exhausted target means no match.
ScanEnds ==
   (Scanning /\ pc' # "scan") =>
      /\ target_index' = target_index
      /\ IF next_piece_matched
         THEN piece_index' = piece_index + 1 /\ match_possible'
         ELSE piece_index' = piece_index /\ ~match_possible'
                 /\ target_index >= target_length

\* Entering the scan: target_index moves on by the run's minimum.
ScanBegins ==
   (pc = "collapse" /\ pc' = "scan") =>
      /\ maximum_variant_length = None
      /\ target_index' = target_index + minimum_variant_length
      /\ next_piece = pattern[piece_index + 1] /\ ~IsVariant(next_piece)

\* A scan step passes one token, and only a token that is not the literal is
\* passed without stopping.
ScanPasses ==
   (Scanning /\ pc' = "scan") =>
      /\ ~next_piece_matched
      /\ target_index' = target_index + 1
      /\ next_piece_matched' = (target[target_index + 1] = next_piece.text)

\* C9: an unbounded run followed by a literal L advances by the run's minimum,
\* scans to the first token equal to L, consumes it and steps past L, or sets
\* no-match when the target is exhausted; so match(T, ["*", L]) is True if and
\* only if L occurs in T and its first occurrence is T's last token.
C9_FirstOccurrenceWins ==
   /\ [](Scanning => ScanFound)
   /\ [](\A t \in Tokens :
            (Returned /\ pattern = <<Rule("*"), Literal(t)>>) =>
               (result <=> (FirstOccurrence(t) # 0 /\ FirstOccurrence(t) = Len(target))))
   /\ [][ScanBegins /\ ScanPasses /\ ScanEnds]_vars

C9_Witness ==
   /\ Returned /\ Len(pattern) = 2 /\ pattern[1] = Rule("*") /\ ~IsVariant(pattern[2])
   /\ Len(target) = 2 /\ target[1] = pattern[2].text /\ target[2] = pattern[2].text
   /\ ~result /\ target_index = 1 /\ piece_index = 2

\* Whether target[ti+1 ..] splits into one segment per piece of pattern[pi+1 ..]:
\* one equal token for a literal, between its own minimum and maximum tokens
\* for a specifier.
RECURSIVE Accounts(_, _)
Accounts(ti, pi) ==
   IF pi = Len(pattern) THEN ti = Len(target)
   ELSE LET p == pattern[pi + 1]
        IN  IF ~IsVariant(p)
            THEN ti < Len(target) /\ target[ti + 1] = p.text /\ Accounts(ti + 1, pi + 1)
            ELSE /\ OwnLengths(p).raises = ""
                 /\ \E k \in OwnLengths(p).min..(Len(target) - ti) :
                       /\ OwnLengths(p).max = None \/ k <= OwnLengths(p).max
                       /\ Accounts(ti + k, pi + 1)

\* C10: whenever match returns True, the target splits into consecutive
\* segments, one per pattern piece, each within its piece's own bounds.
C10_TrueHasASplit ==
   (Returned /\ result) => Accounts(0, 0)

=============================================================================
